---- MODULE Spec2Model ----
(***************************************************************************)
(* ReferralSystem (the referral/reward engine) together with the part of   *)
(* ReferralToken it calls.  Every external function of the contract is an  *)
(* operator from the state before the call to the state after it; a revert *)
(* returns the state before the call with the error name in err.           *)
(***************************************************************************)
EXTENDS Integers, Sequences, FiniteSets, TLC

\* ---------------------------------------------------------------- bounds
MaxCalls == 3          \* engine and token-pause transactions explored per behaviour
MaxTime == 3           \* last block.timestamp explored
InitialSupply == 8     \* INITIAL_SUPPLY, tokens minted to the owner (scaled down)
MAX_SUPPLY == 10       \* cap of the token supply (scaled down)

\* ------------------------------------------------------------- addresses
Zero == "0x0"
Owner == "owner"
Engine == "engine"
Demo2 == "demo2"

DemoAddress(code) == "DEMO_" \o code

SeededCodes ==
    {"REF_ABC123", "REF_DEF456", "REF_GHI789", "REF_JKL012", "REF_MNO345", "REF_PQR678"}

Users == {"A", "B"}
Addresses == {Zero, Owner, Engine, Demo2} \cup Users \cup {DemoAddress(c) : c \in SeededCodes}
Codes == SeededCodes \cup {"", "PROMO", "X"}

\* inputs the actions draw from
StartTimes == {1}
TickInputs == {2}
Senders == Users
OwnerSenders == {Owner, "A"}
RefereeInputs == {Zero, Engine, "A"}
ReferrerInputs == {Zero, "A", Demo2, DemoAddress("REF_ABC123")}
CodeInputs == {"", "REF_ABC123", "PROMO", "X"}
RegisterCodes == {"", "REF_ABC123", "X"}
DemoCodeInputs == {"PROMO"}
DemoTargets == {Zero, Demo2}
RewardPairs == {<<0, 1>>, <<1, 0>>, <<1, 1>>}
IntervalInputs == {0, 2}
MaxReferralInputs == {0, 1}
BackendInputs == {Zero, "A"}
FundAmounts == {6}
WithdrawAmounts == {4}

DefaultMaxReferrals == 100

VARIABLES
    now,                    \* block.timestamp
    paused,                 \* Pausable._paused of the engine
    tokenPaused,            \* Pausable._paused of the token
    balanceOf,              \* token ledger
    totalSupply,            \* ERC20 total supply
    authorizedMinters,      \* addresses with authorizedMinters[a] = true
    allowance,              \* ERC20 allowances, <<owner, spender>> :> amount
    referrerReward, refereeReward, minReferralInterval, maxReferralsPerUser,
    frontendMode, demoMode,
    userReferrals, lastReferralTime, totalReferrals, totalRewardsEarned,
    hasBeenReferred,
    referralCodeToAddress, addressToReferralCode, demoReferralCodes,
    backendRole,            \* holders of BACKEND_ROLE
    succeeded,              \* history: the referral calls that succeeded
    registered,             \* history: the code registrations that succeeded
    withdrawn,              \* history: tokens taken by emergencyWithdraw
    funded,                 \* history: tokens transferred to the engine
    ncalls                  \* transactions so far

vars == <<now, paused, tokenPaused, balanceOf, totalSupply, authorizedMinters,
          allowance, referrerReward, refereeReward,
          minReferralInterval, maxReferralsPerUser, frontendMode, demoMode,
          userReferrals, lastReferralTime, totalReferrals, totalRewardsEarned,
          hasBeenReferred, referralCodeToAddress, addressToReferralCode,
          demoReferralCodes, backendRole, succeeded, registered, withdrawn, funded,
          ncalls>>

\* the contract state a call reads and writes; log holds the events of the call
St ==
    [now |-> now, paused |-> paused, tokenPaused |-> tokenPaused,
     balanceOf |-> balanceOf, totalSupply |-> totalSupply,
     authorizedMinters |-> authorizedMinters, allowance |-> allowance,
     referrerReward |-> referrerReward, refereeReward |-> refereeReward,
     minReferralInterval |-> minReferralInterval,
     maxReferralsPerUser |-> maxReferralsPerUser,
     frontendMode |-> frontendMode, demoMode |-> demoMode,
     userReferrals |-> userReferrals, lastReferralTime |-> lastReferralTime,
     totalReferrals |-> totalReferrals, totalRewardsEarned |-> totalRewardsEarned,
     hasBeenReferred |-> hasBeenReferred,
     referralCodeToAddress |-> referralCodeToAddress,
     addressToReferralCode |-> addressToReferralCode,
     demoReferralCodes |-> demoReferralCodes,
     backendRole |-> backendRole,
     log |-> <<>>, err |-> ""]

\* revert: the call stops with the error; the writes made so far are still in s
Revert(s, e) == [s EXCEPT !.err = e]

Ok(s) == s.err = ""

\* a transaction is atomic: a reverted call leaves the state before the call
Atomic(s0, r) == IF Ok(r) THEN r ELSE [s0 EXCEPT !.err = r.err]

\* ------------------------------------------------------------ token ledger
\* ERC20.transfer as overridden by ReferralToken._update (whenNotPaused)
transfer(s, from, to, amount) ==
    IF to = Zero THEN Revert(s, "ERC20InvalidReceiver")
    ELSE IF s.tokenPaused THEN Revert(s, "Token:EnforcedPause")
    ELSE IF s.balanceOf[from] < amount THEN Revert(s, "ERC20InsufficientBalance")
    ELSE [s EXCEPT !.balanceOf =
              [a \in Addresses |->
                  IF a = from /\ a = to THEN @[a]
                  ELSE IF a = from THEN @[a] - amount
                  ELSE IF a = to THEN @[a] + amount
                  ELSE @[a]],
            !.log = Append(@, [event |-> "Transfer", from |-> from, to |-> to,
                               amount |-> amount])]

Allowance(s, owner, spender) ==
    IF <<owner, spender>> \in DOMAIN s.allowance THEN s.allowance[<<owner, spender>>]
    ELSE 0

\* ERC20._approve
_approve(s, owner, spender, value) ==
    [s EXCEPT !.allowance =
        [p \in DOMAIN @ \cup {<<owner, spender>>} |->
            IF p = <<owner, spender>> THEN value ELSE @[p]]]

approve(s, sender, spender, value) ==
    IF spender = Zero THEN Revert(s, "ERC20InvalidSpender")
    ELSE _approve(s, sender, spender, value)

\* ERC20._mint through ReferralToken._update (whenNotPaused)
_mint(s, to, amount) ==
    IF s.tokenPaused THEN Revert(s, "Token:EnforcedPause")
    ELSE [s EXCEPT !.totalSupply = @ + amount,
                   !.balanceOf[to] = @ + amount]

\* ERC20._burn through ReferralToken._update (whenNotPaused)
_burn(s, from, amount) ==
    IF s.tokenPaused THEN Revert(s, "Token:EnforcedPause")
    ELSE IF s.balanceOf[from] < amount THEN Revert(s, "ERC20InsufficientBalance")
    ELSE [s EXCEPT !.totalSupply = @ - amount,
                   !.balanceOf[from] = @ - amount]

addMinter(s, sender, minter) ==
    IF sender # Owner THEN Revert(s, "OwnableUnauthorizedAccount")
    ELSE IF minter = Zero THEN Revert(s, "InvalidAddress")
    ELSE [s EXCEPT !.authorizedMinters = @ \cup {minter}]

removeMinter(s, sender, minter) ==
    IF sender # Owner THEN Revert(s, "OwnableUnauthorizedAccount")
    ELSE [s EXCEPT !.authorizedMinters = @ \ {minter}]

mint_noCap(s, sender, to, amount) ==
    IF s.tokenPaused THEN Revert(s, "Token:EnforcedPause")
    ELSE IF sender \notin s.authorizedMinters THEN Revert(s, "UnauthorizedMinter")
    ELSE IF to = Zero THEN Revert(s, "InvalidAddress")
    ELSE IF amount = 0 THEN Revert(s, "InvalidAmount")
    ELSE _mint(s, to, amount)

mint(s, sender, to, amount) ==
    IF s.tokenPaused THEN Revert(s, "Token:EnforcedPause")
    ELSE IF sender \notin s.authorizedMinters THEN Revert(s, "UnauthorizedMinter")
    ELSE IF to = Zero THEN Revert(s, "InvalidAddress")
    ELSE IF amount = 0 THEN Revert(s, "InvalidAmount")
    ELSE IF s.totalSupply + amount > MAX_SUPPLY THEN Revert(s, "ExceedsMaxSupply")
    ELSE _mint(s, to, amount)

burn(s, sender, amount) ==
    IF amount = 0 THEN Revert(s, "InvalidAmount")
    ELSE _burn(s, sender, amount)

burnFrom(s, sender, from, amount) ==
    IF from = Zero THEN Revert(s, "InvalidAddress")
    ELSE IF amount = 0 THEN Revert(s, "InvalidAmount")
    ELSE IF Allowance(s, from, sender) < amount
         THEN Revert(s, "ERC20InsufficientAllowance")
    ELSE Atomic(s, _burn(_approve(s, from, sender, Allowance(s, from, sender) - amount),
                         from, amount))

\* ------------------------------------------------------------ code resolver
_initializeDemoCodes ==
    [c \in Codes |-> IF c \in SeededCodes THEN DemoAddress(c) ELSE Zero]

_getReferrerFromCode_demoFirst(s, code) ==
    IF s.demoMode /\ s.demoReferralCodes[code] # Zero THEN s.demoReferralCodes[code]
    ELSE s.referralCodeToAddress[code]

_getReferrerFromCode(s, code) ==
    LET userReferrer == s.referralCodeToAddress[code] IN
    IF userReferrer # Zero THEN userReferrer
    ELSE IF s.demoMode THEN s.demoReferralCodes[code]
    ELSE Zero

_isDemoAddress(s, a) ==
    IF ~s.demoMode THEN FALSE
    ELSE \E c \in SeededCodes : a = s.demoReferralCodes[c]

\* --------------------------------------------------------- reward distributor
insufficientBalance_refereeOnly(s) == s.balanceOf[Engine] < s.refereeReward

insufficientBalance(s) ==
    LET totalRewardAmount == s.referrerReward + s.refereeReward IN
    s.balanceOf[Engine] < totalRewardAmount

_distributeRewards_payoutOnly(s, referrer, referee) ==
    LET payout == IF ~_isDemoAddress(s, referrer)
                  THEN s.referrerReward + s.refereeReward
                  ELSE s.refereeReward
        s1 == IF ~_isDemoAddress(s, referrer)
              THEN LET t1 == transfer(s, Engine, referrer, s.referrerReward) IN
                   IF ~Ok(t1) THEN t1
                   ELSE [t1 EXCEPT
                           !.totalRewardsEarned[referrer] = @ + s.referrerReward,
                           !.log = Append(@, [event |-> "RewardsDistributed",
                                              user |-> referrer,
                                              amount |-> s.referrerReward,
                                              referralType |-> "REFERRER"])]
              ELSE s
        t2 == transfer(s1, Engine, referee, s1.refereeReward)
    IN
    IF s.balanceOf[Engine] < payout THEN Revert(s, "InsufficientTokenBalance")
    ELSE IF ~Ok(s1) THEN s1
    ELSE IF ~Ok(t2) THEN t2
    ELSE [t2 EXCEPT
            !.totalRewardsEarned[referee] = @ + s1.refereeReward,
            !.log = Append(@, [event |-> "RewardsDistributed", user |-> referee,
                               amount |-> s1.refereeReward,
                               referralType |-> "REFEREE"])]

_distributeRewards(s, referrer, referee) ==
    LET s1 == IF ~_isDemoAddress(s, referrer)
              THEN LET t1 == transfer(s, Engine, referrer, s.referrerReward) IN
                   IF ~Ok(t1) THEN t1
                   ELSE [t1 EXCEPT
                           !.totalRewardsEarned[referrer] = @ + s.referrerReward,
                           !.log = Append(@, [event |-> "RewardsDistributed",
                                              user |-> referrer,
                                              amount |-> s.referrerReward,
                                              referralType |-> "REFERRER"])]
              ELSE s
        t2 == transfer(s1, Engine, referee, s1.refereeReward)
    IN
    IF insufficientBalance(s) THEN Revert(s, "InsufficientTokenBalance")
    ELSE IF ~Ok(s1) THEN s1
    ELSE IF ~Ok(t2) THEN t2
    ELSE [t2 EXCEPT
            !.totalRewardsEarned[referee] = @ + s1.refereeReward,
            !.log = Append(@, [event |-> "RewardsDistributed", user |-> referee,
                               amount |-> s1.refereeReward,
                               referralType |-> "REFEREE"])]

\* ---------------------------------------------------------- referral registry
selfReferral_never(referee, referrer) == FALSE

selfReferral(referee, referrer) == referee = referrer

referralTooSoon_never(s, referrer) == FALSE

referralTooSoon(s, referrer) ==
    /\ ~_isDemoAddress(s, referrer)
    /\ s.now < s.lastReferralTime[referrer] + s.minReferralInterval

maxReferralsReached_offByOne(s, referrer) ==
    /\ ~_isDemoAddress(s, referrer)
    /\ s.totalReferrals[referrer] > s.maxReferralsPerUser

maxReferralsReached_never(s, referrer) == FALSE

maxReferralsReached(s, referrer) ==
    /\ ~_isDemoAddress(s, referrer)
    /\ s.totalReferrals[referrer] >= s.maxReferralsPerUser

markReferred_referrer(s, referee, referrer) ==
    [s EXCEPT !.hasBeenReferred[referrer] = TRUE]

markReferred_skip(s, referee, referrer) == s

markReferred(s, referee, referrer) == [s EXCEPT !.hasBeenReferred[referee] = TRUE]

bumpReferrer_noCount(s, referrer) ==
    IF ~_isDemoAddress(s, referrer)
    THEN [s EXCEPT !.lastReferralTime[referrer] = s.now]
    ELSE s

bumpReferrer(s, referrer) ==
    IF ~_isDemoAddress(s, referrer)
    THEN [s EXCEPT !.lastReferralTime[referrer] = s.now,
                   !.totalReferrals[referrer] = @ + 1]
    ELSE s

_processReferralInternal_referredFirst(s, referee, referrer) ==
    IF referee = Zero \/ referrer = Zero THEN Revert(s, "InvalidAddress")
    ELSE IF s.hasBeenReferred[referee] THEN Revert(s, "UserAlreadyReferred")
    ELSE IF selfReferral(referee, referrer) THEN Revert(s, "SelfReferralNotAllowed")
    ELSE IF maxReferralsReached(s, referrer) THEN Revert(s, "MaxReferralsExceeded")
    ELSE IF referralTooSoon(s, referrer) THEN Revert(s, "ReferralTooSoon")
    ELSE
      LET s1 == markReferred(s, referee, referrer)
          s2 == bumpReferrer(s1, referrer)
          newReferral == [referee |-> referee, referrer |-> referrer,
                          timestamp |-> s2.now,
                          referrerReward |-> s2.referrerReward,
                          refereeReward |-> s2.refereeReward]
          s3 == [s2 EXCEPT !.userReferrals[referrer] = Append(@, newReferral)]
          s4 == [s3 EXCEPT !.userReferrals[referee] = Append(@, newReferral)]
      IN _distributeRewards(s4, referrer, referee)

_processReferralInternal_oneList(s, referee, referrer) ==
    IF referee = Zero \/ referrer = Zero THEN Revert(s, "InvalidAddress")
    ELSE IF selfReferral(referee, referrer) THEN Revert(s, "SelfReferralNotAllowed")
    ELSE IF s.hasBeenReferred[referee] THEN Revert(s, "UserAlreadyReferred")
    ELSE IF referralTooSoon(s, referrer) THEN Revert(s, "ReferralTooSoon")
    ELSE IF maxReferralsReached(s, referrer) THEN Revert(s, "MaxReferralsExceeded")
    ELSE
      LET s1 == markReferred(s, referee, referrer)
          s2 == bumpReferrer(s1, referrer)
          newReferral == [referee |-> referee, referrer |-> referrer,
                          timestamp |-> s2.now,
                          referrerReward |-> s2.referrerReward,
                          refereeReward |-> s2.refereeReward]
          s4 == [s2 EXCEPT !.userReferrals[referee] = Append(@, newReferral)]
          s5 == _distributeRewards(s4, referrer, referee)
      IN
      IF ~Ok(s5) THEN s5
      ELSE [s5 EXCEPT !.log = Append(@, [event |-> "ReferralProcessed",
                                         referee |-> referee,
                                         referrer |-> referrer,
                                         timestamp |-> s5.now])]

_processReferralInternal(s, referee, referrer) ==
    IF referee = Zero \/ referrer = Zero THEN Revert(s, "InvalidAddress")
    ELSE IF selfReferral(referee, referrer) THEN Revert(s, "SelfReferralNotAllowed")
    ELSE IF s.hasBeenReferred[referee] THEN Revert(s, "UserAlreadyReferred")
    ELSE IF referralTooSoon(s, referrer) THEN Revert(s, "ReferralTooSoon")
    ELSE IF maxReferralsReached(s, referrer) THEN Revert(s, "MaxReferralsExceeded")
    ELSE
      LET s1 == markReferred(s, referee, referrer)
          s2 == bumpReferrer(s1, referrer)
          newReferral == [referee |-> referee, referrer |-> referrer,
                          timestamp |-> s2.now,
                          referrerReward |-> s2.referrerReward,
                          refereeReward |-> s2.refereeReward]
          s3 == [s2 EXCEPT !.userReferrals[referrer] = Append(@, newReferral)]
          s4 == [s3 EXCEPT !.userReferrals[referee] = Append(@, newReferral)]
          s5 == _distributeRewards(s4, referrer, referee)
      IN
      IF ~Ok(s5) THEN s5
      ELSE [s5 EXCEPT !.log = Append(@, [event |-> "ReferralProcessed",
                                         referee |-> referee,
                                         referrer |-> referrer,
                                         timestamp |-> s5.now])]

hasRole(s, account) == account \in s.backendRole

unauthorizedBackend_roleOnly(s, sender) == ~hasRole(s, sender)

unauthorizedBackend(s, sender) == ~s.frontendMode /\ ~hasRole(s, sender)

processReferral(s, sender, referee, referrer) ==
    IF s.paused THEN Revert(s, "EnforcedPause")
    ELSE IF unauthorizedBackend(s, sender) THEN Revert(s, "UnauthorizedBackend")
    ELSE Atomic(s, _processReferralInternal(s, referee, referrer))

processReferralByCode_roleBypass(s, sender, code) ==
    IF s.paused THEN Revert(s, "EnforcedPause")
    ELSE IF ~s.frontendMode /\ ~hasRole(s, sender) THEN Revert(s, "UnauthorizedBackend")
    ELSE LET referrer == _getReferrerFromCode(s, code) IN
         IF referrer = Zero THEN Revert(s, "InvalidReferralCode")
         ELSE Atomic(s, _processReferralInternal(s, sender, referrer))

processReferralByCode(s, sender, code) ==
    IF s.paused THEN Revert(s, "EnforcedPause")
    ELSE IF ~s.frontendMode THEN Revert(s, "UnauthorizedBackend")
    ELSE LET referrer == _getReferrerFromCode(s, code) IN
         IF referrer = Zero THEN Revert(s, "InvalidReferralCode")
         ELSE Atomic(s, _processReferralInternal(s, sender, referrer))

registerReferralCode_keepOld(s, sender, code) ==
    IF ~s.frontendMode THEN Revert(s, "UnauthorizedBackend")
    ELSE IF code = "" THEN Revert(s, "InvalidReferralCode")
    ELSE IF s.referralCodeToAddress[code] # Zero THEN Revert(s, "ReferralCodeAlreadyExists")
    ELSE [s EXCEPT !.referralCodeToAddress[code] = sender,
                   !.addressToReferralCode[sender] = code,
                   !.log = Append(@, [event |-> "ReferralCodeRegistered",
                                      user |-> sender, referralCode |-> code])]

registerReferralCode_selfAllowed(s, sender, code) ==
    IF ~s.frontendMode THEN Revert(s, "UnauthorizedBackend")
    ELSE IF code = "" THEN Revert(s, "InvalidReferralCode")
    ELSE IF s.referralCodeToAddress[code] \notin {Zero, sender}
         THEN Revert(s, "ReferralCodeAlreadyExists")
    ELSE
      LET oldCode == s.addressToReferralCode[sender]
          s1 == IF oldCode # ""
                THEN [s EXCEPT !.referralCodeToAddress[oldCode] = Zero]
                ELSE s
      IN [s1 EXCEPT !.referralCodeToAddress[code] = sender,
                    !.addressToReferralCode[sender] = code,
                    !.log = Append(@, [event |-> "ReferralCodeRegistered",
                                       user |-> sender, referralCode |-> code])]

registerReferralCode_takeOver(s, sender, code) ==
    IF ~s.frontendMode THEN Revert(s, "UnauthorizedBackend")
    ELSE IF code = "" THEN Revert(s, "InvalidReferralCode")
    ELSE
      LET oldCode == s.addressToReferralCode[sender]
          s1 == IF oldCode # ""
                THEN [s EXCEPT !.referralCodeToAddress[oldCode] = Zero]
                ELSE s
      IN [s1 EXCEPT !.referralCodeToAddress[code] = sender,
                    !.addressToReferralCode[sender] = code,
                    !.log = Append(@, [event |-> "ReferralCodeRegistered",
                                       user |-> sender, referralCode |-> code])]

registerReferralCode(s, sender, code) ==
    IF ~s.frontendMode THEN Revert(s, "UnauthorizedBackend")
    ELSE IF code = "" THEN Revert(s, "InvalidReferralCode")
    ELSE IF s.referralCodeToAddress[code] # Zero THEN Revert(s, "ReferralCodeAlreadyExists")
    ELSE
      LET oldCode == s.addressToReferralCode[sender]
          s1 == IF oldCode # ""
                THEN [s EXCEPT !.referralCodeToAddress[oldCode] = Zero]
                ELSE s
      IN [s1 EXCEPT !.referralCodeToAddress[code] = sender,
                    !.addressToReferralCode[sender] = code,
                    !.log = Append(@, [event |-> "ReferralCodeRegistered",
                                       user |-> sender, referralCode |-> code])]

\* ------------------------------------------------------------- read entry points
getReferrerFromCode(s, code) == _getReferrerFromCode(s, code)

getReferrals(s, user) == s.userReferrals[user]

getReferralCount(s, user) == Len(s.userReferrals[user])

isEligibleForReferral(s, user) ==
    IF s.hasBeenReferred[user] THEN FALSE
    ELSE IF s.now < s.lastReferralTime[user] + s.minReferralInterval THEN FALSE
    ELSE IF s.totalReferrals[user] >= s.maxReferralsPerUser THEN FALSE
    ELSE TRUE

getUserStats(s, user) ==
    <<s.totalReferrals[user], s.totalRewardsEarned[user],
      s.lastReferralTime[user], s.hasBeenReferred[user]>>

getContractBalance(s) == s.balanceOf[Engine]

\* ------------------------------------------------------------------ client
\* a referral code as the client receives it: a sequence of characters
Chars(code) ==
    CASE code = "REF_ABC123" -> <<"R", "E", "F", "_", "A", "B", "C", "1", "2", "3">>
      [] code = "REF_DEF456" -> <<"R", "E", "F", "_", "D", "E", "F", "4", "5", "6">>
      [] code = "REF_GHI789" -> <<"R", "E", "F", "_", "G", "H", "I", "7", "8", "9">>
      [] code = "REF_JKL012" -> <<"R", "E", "F", "_", "J", "K", "L", "0", "1", "2">>
      [] code = "REF_MNO345" -> <<"R", "E", "F", "_", "M", "N", "O", "3", "4", "5">>
      [] code = "REF_PQR678" -> <<"R", "E", "F", "_", "P", "Q", "R", "6", "7", "8">>
      [] code = "PROMO" -> <<"P", "R", "O", "M", "O">>
      [] code = "X" -> <<"X">>
      [] OTHER -> <<>>

ReadmeDemoCodes == {"REF_ABC123", "REF_DEF456", "REF_GHI789", "REF_JKL012"}

LowerCase == <<"a", "b", "c", "d", "e", "f", "r">>
UpperCase == <<"A", "B", "C", "D", "E", "F", "R">>

\* String.prototype.toUpperCase, character by character
toUpperCase(chars) ==
    [i \in DOMAIN chars |->
        IF \E k \in DOMAIN LowerCase : LowerCase[k] = chars[i]
        THEN UpperCase[CHOOSE k \in DOMAIN LowerCase : LowerCase[k] = chars[i]]
        ELSE chars[i]]

\* String.prototype.trim
RECURSIVE trimStart(_)
trimStart(chars) ==
    IF chars # <<>> /\ Head(chars) = " " THEN trimStart(Tail(chars)) ELSE chars

RECURSIVE trimEnd(_)
trimEnd(chars) ==
    IF chars # <<>> /\ chars[Len(chars)] = " "
    THEN trimEnd(SubSeq(chars, 1, Len(chars) - 1))
    ELSE chars

trim(chars) == trimEnd(trimStart(chars))

HexDigits == {"A", "B", "C", "D", "E", "F",
              "0", "1", "2", "3", "4", "5", "6", "7", "8", "9"}

\* /^REF_[A-F0-9]{6}$/
codeRegex(chars) ==
    /\ Len(chars) = 10
    /\ SubSeq(chars, 1, 4) = <<"R", "E", "F", "_">>
    /\ \A i \in 5..10 : chars[i] \in HexDigits

\* the string the contract receives
RECURSIVE Text(_)
Text(chars) == IF chars = <<>> THEN "" ELSE Head(chars) \o Text(Tail(chars))

isDemoCode(s, code) == s.demoMode /\ s.demoReferralCodes[code] # Zero

\* useContract.validateReferralCode
validateReferralCode(s, code, contractsDeployed) ==
    LET normalizedCode == Text(toUpperCase(trim(code))) IN
    IF code = <<>> THEN [valid |-> FALSE]
    ELSE IF ~codeRegex(toUpperCase(trim(code))) THEN [valid |-> FALSE]
    ELSE IF contractsDeployed /\ getReferrerFromCode(s, normalizedCode) # Zero
         THEN [valid |-> TRUE,
               referrerAddress |-> getReferrerFromCode(s, normalizedCode),
               isDemoCode |-> isDemoCode(s, normalizedCode)]
    ELSE [valid |-> FALSE]

\* ------------------------------------------------------------ owner entry points
onlyOwner(sender) == sender = Owner

addDemoCode(s, sender, code, referrer) ==
    IF ~onlyOwner(sender) THEN Revert(s, "OwnableUnauthorizedAccount")
    ELSE IF referrer = Zero THEN Revert(s, "InvalidAddress")
    ELSE [s EXCEPT !.demoReferralCodes[code] = referrer,
                   !.log = Append(@, [event |-> "DemoCodeAdded",
                                      referralCode |-> code, referrer |-> referrer])]

setDemoMode(s, sender, enabled) ==
    IF ~onlyOwner(sender) THEN Revert(s, "OwnableUnauthorizedAccount")
    ELSE [s EXCEPT !.demoMode = enabled,
                   !.log = Append(@, [event |-> "DemoModeUpdated", enabled |-> enabled])]

setFrontendMode(s, sender, enabled) ==
    IF ~onlyOwner(sender) THEN Revert(s, "OwnableUnauthorizedAccount")
    ELSE [s EXCEPT !.frontendMode = enabled,
                   !.log = Append(@, [event |-> "FrontendModeUpdated", enabled |-> enabled])]

updateRewardAmounts(s, sender, newReferrerReward, newRefereeReward) ==
    IF ~onlyOwner(sender) THEN Revert(s, "OwnableUnauthorizedAccount")
    ELSE IF newReferrerReward = 0 \/ newRefereeReward = 0 THEN Revert(s, "InvalidAmount")
    ELSE [s EXCEPT !.referrerReward = newReferrerReward,
                   !.refereeReward = newRefereeReward,
                   !.log = Append(@, [event |-> "RewardAmountsUpdated",
                                      newReferrerReward |-> newReferrerReward,
                                      newRefereeReward |-> newRefereeReward])]

updateMinReferralInterval(s, sender, minInterval) ==
    IF ~onlyOwner(sender) THEN Revert(s, "OwnableUnauthorizedAccount")
    ELSE [s EXCEPT !.minReferralInterval = minInterval,
                   !.log = Append(@, [event |-> "MinReferralIntervalUpdated",
                                      newInterval |-> minInterval])]

updateMaxReferralsPerUser(s, sender, maxReferrals) ==
    IF ~onlyOwner(sender) THEN Revert(s, "OwnableUnauthorizedAccount")
    ELSE IF maxReferrals = 0 THEN Revert(s, "InvalidAmount")
    ELSE [s EXCEPT !.maxReferralsPerUser = maxReferrals,
                   !.log = Append(@, [event |-> "MaxReferralsPerUserUpdated",
                                      newMaxReferrals |-> maxReferrals])]

addBackendWallet(s, sender, backendWallet) ==
    IF ~onlyOwner(sender) THEN Revert(s, "OwnableUnauthorizedAccount")
    ELSE IF backendWallet = Zero THEN Revert(s, "InvalidAddress")
    ELSE [s EXCEPT !.backendRole = @ \cup {backendWallet}]

removeBackendWallet(s, sender, backendWallet) ==
    IF ~onlyOwner(sender) THEN Revert(s, "OwnableUnauthorizedAccount")
    ELSE [s EXCEPT !.backendRole = @ \ {backendWallet}]

pause(s, sender) ==
    IF ~onlyOwner(sender) THEN Revert(s, "OwnableUnauthorizedAccount")
    ELSE IF s.paused THEN Revert(s, "EnforcedPause")
    ELSE [s EXCEPT !.paused = TRUE]

unpause(s, sender) ==
    IF ~onlyOwner(sender) THEN Revert(s, "OwnableUnauthorizedAccount")
    ELSE IF ~s.paused THEN Revert(s, "ExpectedPause")
    ELSE [s EXCEPT !.paused = FALSE]

emergencyWithdraw_anyone(s, sender, amount) ==
    LET t1 == transfer(s, Engine, Owner, amount) IN
    IF ~Ok(t1) THEN Revert(s, t1.err) ELSE t1

emergencyWithdraw(s, sender, amount) ==
    IF ~onlyOwner(sender) THEN Revert(s, "OwnableUnauthorizedAccount")
    ELSE LET t1 == transfer(s, Engine, Owner, amount) IN
         IF ~Ok(t1) THEN Revert(s, t1.err) ELSE t1

\* ------------------------------------------------- token calls made by the owner
tokenTransfer(s, sender, to, amount) ==
    LET t1 == transfer(s, sender, to, amount) IN
    IF ~Ok(t1) THEN Revert(s, t1.err) ELSE t1

tokenPause(s, sender) ==
    IF ~onlyOwner(sender) THEN Revert(s, "OwnableUnauthorizedAccount")
    ELSE IF s.tokenPaused THEN Revert(s, "EnforcedPause")
    ELSE [s EXCEPT !.tokenPaused = TRUE]

tokenUnpause(s, sender) ==
    IF ~onlyOwner(sender) THEN Revert(s, "OwnableUnauthorizedAccount")
    ELSE IF ~s.tokenPaused THEN Revert(s, "ExpectedPause")
    ELSE [s EXCEPT !.tokenPaused = FALSE]

\* ------------------------------------------------------- client referral call
\* CONTRACT_ERROR_MESSAGES, the entries for the engine's errors
CONTRACT_ERROR_MESSAGES ==
    [name \in {"InsufficientTokenBalance", "InvalidAddress", "InvalidAmount",
               "MaxReferralsExceeded", "ReferralTooSoon", "SelfReferralNotAllowed",
               "UnauthorizedBackend", "UserAlreadyReferred", "InvalidReferralCode",
               "ReferralCodeAlreadyExists"} |->
        CASE name = "InsufficientTokenBalance" ->
                 "Contract does not have enough tokens for rewards. Please contact support."
          [] name = "InvalidAddress" -> "Invalid wallet address provided."
          [] name = "InvalidAmount" -> "Invalid amount specified."
          [] name = "MaxReferralsExceeded" ->
                 "You have reached the maximum number of referrals allowed."
          [] name = "ReferralTooSoon" ->
                 "Please wait before making another referral. Rate limit in effect."
          [] name = "SelfReferralNotAllowed" -> "You cannot refer yourself!"
          [] name = "UnauthorizedBackend" ->
                 "This operation requires backend authorization."
          [] name = "UserAlreadyReferred" ->
                 "This user has already been referred by someone else."
          [] name = "InvalidReferralCode" ->
                 "Invalid or non-existent referral code. Please check the code and try again, or use one of the demo codes."
          [] name = "ReferralCodeAlreadyExists" ->
                 "This referral code is already registered."]

\* the errors ERROR_SELECTORS has a selector for
ERROR_SELECTORS == DOMAIN CONTRACT_ERROR_MESSAGES

\* an error of the wallet library: data is the name of the typed error its revert
\* data decodes to ("" without revert data), includes the known substrings of
\* its message
decodeErrorBySelector(data) ==
    IF data \in ERROR_SELECTORS THEN CONTRACT_ERROR_MESSAGES[data] ELSE ""

handleContractError(error) ==
    IF error.data # "" /\ decodeErrorBySelector(error.data) # ""
    THEN decodeErrorBySelector(error.data)
    ELSE IF error.data # "" THEN "Contract error: " \o error.data
    ELSE IF \E k \in DOMAIN CONTRACT_ERROR_MESSAGES : k \in error.includes
         THEN CONTRACT_ERROR_MESSAGES[
                  CHOOSE k \in DOMAIN CONTRACT_ERROR_MESSAGES : k \in error.includes]
    ELSE IF "user rejected" \in error.includes
         THEN "Transaction was cancelled by user"
    ELSE IF "insufficient funds" \in error.includes
         THEN "Insufficient funds for gas fees. Please add more Sepolia ETH to your wallet."
    ELSE IF "nonce too high" \in error.includes \/ "nonce too low" \in error.includes
         THEN "Transaction nonce error. Please try again."
    ELSE IF "gas" \in error.includes
         THEN "Transaction failed due to gas issues. Please try again with higher gas limit."
    ELSE IF "network" \in error.includes
         THEN "Network error. Please check your connection and try again."
    ELSE "Transaction failed. Please try again."

\* useContract.checkAndFundContract for the connected address: the state after
\* it, err = "" when it returned true
checkAndFundContract(s, address) ==
    LET totalRewardNeeded == s.referrerReward + s.refereeReward
        transferAmount == totalRewardNeeded * 50
    IN
    IF getContractBalance(s) < totalRewardNeeded
    THEN IF s.balanceOf[address] >= totalRewardNeeded * 10
         THEN LET t == tokenTransfer(s, address, Engine, transferAmount) IN
              IF Ok(t) THEN t ELSE Revert(s, "Failed to fund contract")
         ELSE Revert(s, "Contract needs tokens")
    ELSE s

\* the referral call the client makes: by code in frontend mode, with addresses
\* otherwise
referralCall(s, address, referralCode, referrerAddress) ==
    IF s.frontendMode
    THEN processReferralByCode(s, address, Text(referralCode))
    ELSE processReferral(s, address, address, referrerAddress)

\* what the wallet library throws when the transaction sent with the fixed gas
\* limit fails with the typed error e: with or without the revert data
SendErrors(e) ==
    {[data |-> e, includes |-> {e}],
     [data |-> "", includes |-> {}],
     [data |-> "", includes |-> {"gas"}]}

\* useContract.processReferral for a connected wallet: the outcomes it can have,
\* each with the value returned, the toast shown, the number of times the
\* referral call was estimated and the number of times it was sent
useContract_processReferral(s, address, referralCode) ==
    LET validation == validateReferralCode(s, referralCode, TRUE)
        outcome(ret, toast, est, sent) ==
            [returned |-> ret, toast |-> toast, estimated |-> est, sent |-> sent]
    IN
    IF ~validation.valid
    THEN {outcome(FALSE, "Invalid referral code. Please check the code and try again, or use one of the demo codes.", 0, 0)}
    ELSE IF validation.referrerAddress = address
    THEN {outcome(FALSE, "You cannot refer yourself!", 0, 0)}
    ELSE IF s.paused
    THEN {outcome(FALSE, "Referral system is currently paused. Please try again later.", 0, 0)}
    ELSE IF s.hasBeenReferred[address]
    THEN {outcome(FALSE, "You have already been referred by someone else!", 0, 0)}
    ELSE
      LET contractFunded == checkAndFundContract(s, address) IN
      IF ~Ok(contractFunded) THEN {outcome(FALSE, contractFunded.err, 0, 0)}
      ELSE
        LET estimate == referralCall(contractFunded, address, referralCode,
                                     validation.referrerAddress)
        IN
        IF Ok(estimate)
        THEN {outcome(TRUE, "Referral processed successfully!", 1, 1)}
        ELSE {outcome(FALSE, handleContractError(error), 1, 1) :
                  error \in SendErrors(estimate.err)}

\* ----------------------------------------------------------------- behaviours
\* ReferralToken's constructor mints INITIAL_SUPPLY to the owner; the engine's
\* constructor is called with rewards (2, 1), backend wallet A and an interval
Init ==
    /\ now \in StartTimes
    /\ paused = FALSE
    /\ tokenPaused = FALSE
    /\ balanceOf = [a \in Addresses |-> IF a = Owner THEN InitialSupply ELSE 0]
    /\ totalSupply = InitialSupply
    /\ authorizedMinters = {Owner}
    /\ allowance = <<>>
    /\ referrerReward = 2
    /\ refereeReward = 1
    /\ minReferralInterval \in IntervalInputs
    /\ maxReferralsPerUser = DefaultMaxReferrals
    /\ frontendMode = TRUE
    /\ demoMode = TRUE
    /\ userReferrals = [a \in Addresses |-> <<>>]
    /\ lastReferralTime = [a \in Addresses |-> 0]
    /\ totalReferrals = [a \in Addresses |-> 0]
    /\ totalRewardsEarned = [a \in Addresses |-> 0]
    /\ hasBeenReferred = [a \in Addresses |-> FALSE]
    /\ referralCodeToAddress = [c \in Codes |-> Zero]
    /\ addressToReferralCode = [a \in Addresses |-> ""]
    /\ demoReferralCodes = _initializeDemoCodes
    /\ backendRole = {"A", Owner}
    /\ succeeded = {}
    /\ registered = {}
    /\ withdrawn = 0
    /\ funded = 0
    /\ ncalls = 0

\* a call that does not revert is mined: its writes become the contract state
Commit(r) ==
    /\ ncalls < MaxCalls
    /\ Ok(r)
    /\ ncalls' = ncalls + 1
    /\ now' = r.now
    /\ paused' = r.paused
    /\ tokenPaused' = r.tokenPaused
    /\ balanceOf' = r.balanceOf
    /\ totalSupply' = r.totalSupply
    /\ authorizedMinters' = r.authorizedMinters
    /\ allowance' = r.allowance
    /\ referrerReward' = r.referrerReward
    /\ refereeReward' = r.refereeReward
    /\ minReferralInterval' = r.minReferralInterval
    /\ maxReferralsPerUser' = r.maxReferralsPerUser
    /\ frontendMode' = r.frontendMode
    /\ demoMode' = r.demoMode
    /\ userReferrals' = r.userReferrals
    /\ lastReferralTime' = r.lastReferralTime
    /\ totalReferrals' = r.totalReferrals
    /\ totalRewardsEarned' = r.totalRewardsEarned
    /\ hasBeenReferred' = r.hasBeenReferred
    /\ referralCodeToAddress' = r.referralCodeToAddress
    /\ addressToReferralCode' = r.addressToReferralCode
    /\ demoReferralCodes' = r.demoReferralCodes
    /\ backendRole' = r.backendRole

\* history record of a referral call that succeeded: the call, the referee and
\* referrer it resolved to, its block time, and whether the referrer was exempt
Call(fn, sender, referee, referrer, code) ==
    [fn |-> fn, sender |-> sender, referee |-> referee, referrer |-> referrer,
     code |-> code, timestamp |-> now, demo |-> _isDemoAddress(St, referrer)]

ProcessReferral ==
    \E sender \in Senders, referee \in RefereeInputs, referrer \in ReferrerInputs :
        /\ Commit(processReferral(St, sender, referee, referrer))
        /\ succeeded' = succeeded \cup
               {Call("processReferral", sender, referee, referrer, "")}
        /\ UNCHANGED <<registered, withdrawn, funded>>

ProcessReferralByCode ==
    \E sender \in Senders, code \in CodeInputs :
        /\ Commit(processReferralByCode(St, sender, code))
        /\ succeeded' = succeeded \cup
               {Call("processReferralByCode", sender, sender,
                     _getReferrerFromCode(St, code), code)}
        /\ UNCHANGED <<registered, withdrawn, funded>>

RegisterReferralCode ==
    \E sender \in Senders, code \in RegisterCodes :
        /\ Commit(registerReferralCode(St, sender, code))
        /\ registered' = registered \cup
               {[sender |-> sender, code |-> code,
                 oldCode |-> addressToReferralCode[sender]]}
        /\ UNCHANGED <<succeeded, withdrawn, funded>>

AddDemoCode ==
    \E sender \in OwnerSenders, code \in DemoCodeInputs, referrer \in DemoTargets :
        /\ Commit(addDemoCode(St, sender, code, referrer))
        /\ UNCHANGED <<succeeded, registered, withdrawn, funded>>

SetDemoMode ==
    \E sender \in OwnerSenders, enabled \in BOOLEAN :
        /\ Commit(setDemoMode(St, sender, enabled))
        /\ UNCHANGED <<succeeded, registered, withdrawn, funded>>

SetFrontendMode ==
    \E sender \in OwnerSenders, enabled \in BOOLEAN :
        /\ Commit(setFrontendMode(St, sender, enabled))
        /\ UNCHANGED <<succeeded, registered, withdrawn, funded>>

UpdateRewardAmounts ==
    \E sender \in OwnerSenders, p \in RewardPairs :
        /\ Commit(updateRewardAmounts(St, sender, p[1], p[2]))
        /\ UNCHANGED <<succeeded, registered, withdrawn, funded>>

UpdateMinReferralInterval ==
    \E sender \in OwnerSenders, i \in IntervalInputs :
        /\ Commit(updateMinReferralInterval(St, sender, i))
        /\ UNCHANGED <<succeeded, registered, withdrawn, funded>>

UpdateMaxReferralsPerUser ==
    \E sender \in OwnerSenders, m \in MaxReferralInputs :
        /\ Commit(updateMaxReferralsPerUser(St, sender, m))
        /\ UNCHANGED <<succeeded, registered, withdrawn, funded>>

AddBackendWallet ==
    \E sender \in OwnerSenders, w \in BackendInputs :
        /\ Commit(addBackendWallet(St, sender, w))
        /\ UNCHANGED <<succeeded, registered, withdrawn, funded>>

RemoveBackendWallet ==
    \E sender \in OwnerSenders, w \in BackendInputs :
        /\ Commit(removeBackendWallet(St, sender, w))
        /\ UNCHANGED <<succeeded, registered, withdrawn, funded>>

Pause ==
    \E sender \in OwnerSenders :
        /\ Commit(pause(St, sender))
        /\ UNCHANGED <<succeeded, registered, withdrawn, funded>>

Unpause ==
    \E sender \in OwnerSenders :
        /\ Commit(unpause(St, sender))
        /\ UNCHANGED <<succeeded, registered, withdrawn, funded>>

EmergencyWithdraw ==
    \E sender \in OwnerSenders, amount \in WithdrawAmounts :
        /\ Commit(emergencyWithdraw(St, sender, amount))
        /\ withdrawn' = withdrawn + amount
        /\ UNCHANGED <<succeeded, registered, funded>>

\* the owner funds the engine with a plain token transfer
Fund ==
    \E amount \in FundAmounts :
        LET r == tokenTransfer(St, Owner, Engine, amount) IN
        /\ Ok(r)
        /\ balanceOf' = r.balanceOf
        /\ funded' = funded + amount
        /\ UNCHANGED <<now, paused, tokenPaused, totalSupply, authorizedMinters,
                       allowance, referrerReward, refereeReward,
                       minReferralInterval, maxReferralsPerUser, frontendMode,
                       demoMode, userReferrals, lastReferralTime, totalReferrals,
                       totalRewardsEarned, hasBeenReferred, referralCodeToAddress,
                       addressToReferralCode, demoReferralCodes, backendRole,
                       succeeded, registered, withdrawn, ncalls>>

TokenPause ==
    \E sender \in OwnerSenders :
        /\ Commit(tokenPause(St, sender))
        /\ UNCHANGED <<succeeded, registered, withdrawn, funded>>

TokenUnpause ==
    \E sender \in OwnerSenders :
        /\ Commit(tokenUnpause(St, sender))
        /\ UNCHANGED <<succeeded, registered, withdrawn, funded>>

\* a later block
Tick ==
    \E dt \in TickInputs :
    /\ now + dt <= MaxTime
    /\ now' = now + dt
    /\ UNCHANGED <<paused, tokenPaused, balanceOf, totalSupply, authorizedMinters,
                   allowance, referrerReward, refereeReward,
                   minReferralInterval, maxReferralsPerUser, frontendMode, demoMode,
                   userReferrals, lastReferralTime, totalReferrals,
                   totalRewardsEarned, hasBeenReferred, referralCodeToAddress,
                   addressToReferralCode, demoReferralCodes, backendRole,
                   succeeded, registered, withdrawn, funded, ncalls>>

Next ==
    \/ ProcessReferral
    \/ ProcessReferralByCode
    \/ RegisterReferralCode
    \/ AddDemoCode
    \/ SetDemoMode
    \/ SetFrontendMode
    \/ UpdateRewardAmounts
    \/ UpdateMinReferralInterval
    \/ UpdateMaxReferralsPerUser
    \/ AddBackendWallet
    \/ RemoveBackendWallet
    \/ Pause
    \/ Unpause
    \/ EmergencyWithdraw
    \/ Fund
    \/ TokenPause
    \/ TokenUnpause
    \/ Tick

Spec == Init /\ [][Next]_vars

\* ------------------------------------------------------- token ledger behaviours
MintAmounts == {0, 1, 3}
BurnAmounts == {0, 1}
TokenSenders == {Owner, "A"}
TokenReceivers == {Zero, "A", Engine}
MinterInputs == {Zero, "A"}

Mint ==
    \E sender \in TokenSenders, to \in TokenReceivers, amount \in MintAmounts :
        /\ Commit(mint(St, sender, to, amount))
        /\ UNCHANGED <<succeeded, registered, withdrawn, funded>>

Burn ==
    \E sender \in TokenSenders, amount \in BurnAmounts :
        /\ Commit(burn(St, sender, amount))
        /\ UNCHANGED <<succeeded, registered, withdrawn, funded>>

BurnFrom ==
    \E sender \in TokenSenders, from \in {Zero, Owner}, amount \in BurnAmounts :
        /\ Commit(burnFrom(St, sender, from, amount))
        /\ UNCHANGED <<succeeded, registered, withdrawn, funded>>

Approve ==
    \E spender \in MinterInputs, value \in BurnAmounts :
        /\ Commit(approve(St, Owner, spender, value))
        /\ UNCHANGED <<succeeded, registered, withdrawn, funded>>

TokenTransfer ==
    \E sender \in TokenSenders, to \in TokenReceivers, amount \in BurnAmounts :
        /\ Commit(tokenTransfer(St, sender, to, amount))
        /\ funded' = IF to = Engine THEN funded + amount ELSE funded
        /\ UNCHANGED <<succeeded, registered, withdrawn>>

AddMinter ==
    \E sender \in OwnerSenders, minter \in MinterInputs :
        /\ Commit(addMinter(St, sender, minter))
        /\ UNCHANGED <<succeeded, registered, withdrawn, funded>>

RemoveMinter ==
    \E sender \in OwnerSenders, minter \in MinterInputs :
        /\ Commit(removeMinter(St, sender, minter))
        /\ UNCHANGED <<succeeded, registered, withdrawn, funded>>

TokenNext ==
    \/ Mint
    \/ Burn
    \/ BurnFrom
    \/ Approve
    \/ TokenTransfer
    \/ AddMinter
    \/ RemoveMinter
    \/ TokenPause
    \/ TokenUnpause

TokenSpec == Init /\ [][TokenNext]_vars

\* ------------------------------------------------------------------- claims
AllSenders == Senders \cup {Owner}
ClaimAddrs == RefereeInputs \cup ReferrerInputs

NewCalls == succeeded' \ succeeded

\* the state part of a call's result is the state before the call
Untouched(r) == [r EXCEPT !.err = "", !.log = <<>>] = St

\* the checks that come before the referee/referrer validation
DirectGate(sender) == ~paused /\ ~(~frontendMode /\ sender \notin backendRole)
CodeGate == ~paused /\ frontendMode

Replay(c) ==
    IF c.fn = "processReferral"
    THEN processReferral(St, c.sender, c.referee, c.referrer)
    ELSE processReferralByCode(St, c.sender, c.code)

\* C1: once hasBeenReferred(a) is true it stays true, and it turns true only in
\* a step that is a successful referral whose referee is a
C1_ReferredOnce ==
    [][\A a \in Addresses :
          /\ hasBeenReferred[a] => hasBeenReferred'[a]
          /\ (~hasBeenReferred[a] /\ hasBeenReferred'[a]) =>
                 /\ \E c \in NewCalls : c.referee = a
                 /\ Len(userReferrals'[a]) = Len(userReferrals[a]) + 1
                 /\ userReferrals'[a][Len(userReferrals'[a])].referee = a]_vars

C1_Witness ==
    \E a \in Addresses :
        hasBeenReferred[a] /\ paused /\ ncalls > Cardinality(succeeded) + 1

\* C2: a successful referral with referee u and a referrer r the engine treats
\* as real sets hasBeenReferred(u), sets lastReferralTime(r) to the block time,
\* adds one to totalReferrals(r) and leaves the three maps alone elsewhere
C2_ReferralFrame ==
    [][\A c \in NewCalls :
          ~_isDemoAddress(St, c.referrer) =>
              /\ hasBeenReferred'[c.referee]
              /\ lastReferralTime'[c.referrer] = now
              /\ totalReferrals'[c.referrer] = totalReferrals[c.referrer] + 1
              /\ \A a \in Addresses \ {c.referee, c.referrer} :
                    /\ hasBeenReferred'[a] = hasBeenReferred[a]
                    /\ lastReferralTime'[a] = lastReferralTime[a]
                    /\ totalReferrals'[a] = totalReferrals[a]]_vars

C2_Witness ==
    \E c \in succeeded :
        /\ ~c.demo
        /\ hasBeenReferred[c.referee]
        /\ lastReferralTime[c.referrer] = c.timestamp
        /\ totalReferrals[c.referrer] = 1

\* C3 as stated: replaying a referral call that succeeded always fails with
\* UserAlreadyReferred
C3_ReplayAlwaysUserAlreadyReferred ==
    \A c \in succeeded : Replay(c).err = "UserAlreadyReferred"

\* C3 as amended: the replay never succeeds; it fails with UserAlreadyReferred
\* unless an earlier check rejects it (pause, authorization, a code that no longer
\* resolves, or a code that now resolves to the caller)
C3_ReplayNeverSucceeds ==
    \A c \in succeeded :
        LET r == Replay(c)
            byCode == c.fn = "processReferralByCode"
            resolved == _getReferrerFromCode(St, c.code)
        IN
        /\ ~Ok(r)
        /\ Untouched(r)
        /\ r.err =
             IF paused THEN "EnforcedPause"
             ELSE IF ~byCode /\ ~DirectGate(c.sender) THEN "UnauthorizedBackend"
             ELSE IF byCode /\ ~frontendMode THEN "UnauthorizedBackend"
             ELSE IF byCode /\ resolved = Zero THEN "InvalidReferralCode"
             ELSE IF byCode /\ resolved = c.sender THEN "SelfReferralNotAllowed"
             ELSE "UserAlreadyReferred"

C3_Witness ==
    \E c \in succeeded :
        /\ Replay(c).err = "UserAlreadyReferred"
        /\ ncalls > Cardinality(succeeded)
        /\ now > c.timestamp

RecordsDistinct ==
    \A a \in Addresses : \A i \in DOMAIN userReferrals[a] :
        userReferrals[a][i].referee # userReferrals[a][i].referrer

\* C4 as stated: processReferral(x, x) and processReferralByCode with a code that
\* resolves to the caller always fail with SelfReferralNotAllowed
C4_SelfReferralAlwaysThatError ==
    /\ \A sender \in AllSenders, x \in ClaimAddrs :
          processReferral(St, sender, x, x).err = "SelfReferralNotAllowed"
    /\ \A sender \in AllSenders, code \in Codes :
          _getReferrerFromCode(St, code) = sender =>
              processReferralByCode(St, sender, code).err = "SelfReferralNotAllowed"
    /\ RecordsDistinct

\* C4 as amended: such a call never succeeds, and its error is
\* SelfReferralNotAllowed exactly when the pause, authorization and zero-address
\* checks before it pass; every recorded Referral has referee # referrer
C4_NoSelfReferral ==
    /\ \A sender \in AllSenders, x \in ClaimAddrs :
          LET r == processReferral(St, sender, x, x) IN
          /\ ~Ok(r)
          /\ r.err = "SelfReferralNotAllowed" <=> (DirectGate(sender) /\ x # Zero)
    /\ \A sender \in AllSenders, code \in Codes :
          _getReferrerFromCode(St, code) = sender =>
              LET r == processReferralByCode(St, sender, code) IN
              /\ ~Ok(r)
              /\ r.err = "SelfReferralNotAllowed" <=> CodeGate
    /\ RecordsDistinct

C4_Witness ==
    /\ \E a \in Addresses : userReferrals[a] # <<>>
    /\ \E sender \in Senders, code \in Codes :
          /\ referralCodeToAddress[code] = sender
          /\ processReferralByCode(St, sender, code).err = "SelfReferralNotAllowed"
    /\ \E sender \in Senders :
          processReferral(St, sender, sender, sender).err = "SelfReferralNotAllowed"

\* the checks of a referral naming referrer r that come before the cooldown check
DirectReachesCooldown(sender, u, r) ==
    /\ DirectGate(sender)
    /\ u # Zero /\ r # Zero /\ u # r
    /\ ~hasBeenReferred[u]

CodeReachesCooldown(sender, r) ==
    /\ CodeGate
    /\ r # Zero /\ sender # r
    /\ ~hasBeenReferred[sender]

\* a referral naming the referrer of d, a referrer the engine treats as real,
\* attempted less than minReferralInterval after d
TooSoonAfter(d) ==
    /\ ~d.demo
    /\ ~_isDemoAddress(St, d.referrer)
    /\ now < d.timestamp + minReferralInterval

\* C5 as stated: two successful referrals naming a real referrer are at least
\* minReferralInterval apart, and an attempt sooner than that fails with
\* ReferralTooSoon
C5_IntervalAsStated ==
    /\ \A c \in succeeded, d \in succeeded :
          (c # d /\ c.referrer = d.referrer /\ ~c.demo /\ ~d.demo
             /\ c.timestamp >= d.timestamp) =>
              c.timestamp - d.timestamp >= minReferralInterval
    /\ \A d \in succeeded : TooSoonAfter(d) =>
          /\ \A sender \in AllSenders, u \in RefereeInputs :
                processReferral(St, sender, u, d.referrer).err = "ReferralTooSoon"
          /\ \A sender \in AllSenders, code \in Codes :
                _getReferrerFromCode(St, code) = d.referrer =>
                    processReferralByCode(St, sender, code).err = "ReferralTooSoon"

C5_TooSoonRejected ==
    \A d \in succeeded : TooSoonAfter(d) =>
        /\ \A sender \in AllSenders, u \in RefereeInputs :
              LET r == processReferral(St, sender, u, d.referrer) IN
              /\ ~Ok(r)
              /\ r.err = "ReferralTooSoon" <=>
                     DirectReachesCooldown(sender, u, d.referrer)
        /\ \A sender \in AllSenders, code \in Codes :
              _getReferrerFromCode(St, code) = d.referrer =>
                  LET r == processReferralByCode(St, sender, code) IN
                  /\ ~Ok(r)
                  /\ r.err = "ReferralTooSoon" <=>
                         CodeReachesCooldown(sender, d.referrer)

C5_SpacedAtCall ==
    \A c \in NewCalls : ~c.demo =>
        \A d \in succeeded :
            (d.referrer = c.referrer /\ ~d.demo) =>
                c.timestamp >= d.timestamp + minReferralInterval

\* C5 as amended: a successful referral naming a real referrer r comes at least
\* the minReferralInterval in force at that call after every earlier one, and an
\* attempt sooner than that never succeeds; its error is ReferralTooSoon exactly
\* when the checks before the cooldown check pass
C5_Interval == []C5_TooSoonRejected /\ [][C5_SpacedAtCall]_vars

C5_Witness ==
    /\ minReferralInterval > 0
    /\ \E c \in succeeded, d \in succeeded :
          /\ c # d /\ c.referrer = d.referrer /\ ~c.demo /\ ~d.demo
          /\ c.timestamp >= d.timestamp + minReferralInterval
          /\ TooSoonAfter(c)
          /\ \E sender \in Senders, u \in ClaimAddrs :
                processReferral(St, sender, u, c.referrer).err = "ReferralTooSoon"

DirectReachesMaxCheck(sender, u, r) ==
    /\ DirectReachesCooldown(sender, u, r)
    /\ ~(now < lastReferralTime[r] + minReferralInterval)

CodeReachesMaxCheck(sender, r) ==
    /\ CodeReachesCooldown(sender, r)
    /\ ~(now < lastReferralTime[r] + minReferralInterval)

\* C6 as stated: totalReferrals(r) <= maxReferralsPerUser in every reachable
\* state, and a referral naming a real referrer at the cap fails with
\* MaxReferralsExceeded
C6_CapAsStated ==
    /\ \A r \in Addresses : totalReferrals[r] <= maxReferralsPerUser
    /\ \A sender \in AllSenders, u \in RefereeInputs, r \in ReferrerInputs :
          (r # Zero /\ ~_isDemoAddress(St, r)
             /\ totalReferrals[r] = maxReferralsPerUser) =>
              processReferral(St, sender, u, r).err = "MaxReferralsExceeded"

C6_AtCapRejected ==
    \A r \in ReferrerInputs :
        (r # Zero /\ ~_isDemoAddress(St, r)
           /\ totalReferrals[r] >= maxReferralsPerUser) =>
            /\ \A sender \in AllSenders, u \in RefereeInputs :
                  LET res == processReferral(St, sender, u, r) IN
                  /\ ~Ok(res)
                  /\ res.err = "MaxReferralsExceeded" <=>
                         DirectReachesMaxCheck(sender, u, r)
            /\ \A sender \in AllSenders, code \in Codes :
                  _getReferrerFromCode(St, code) = r =>
                      LET res == processReferralByCode(St, sender, code) IN
                      /\ ~Ok(res)
                      /\ res.err = "MaxReferralsExceeded" <=>
                             CodeReachesMaxCheck(sender, r)

C6_CountStep ==
    \A r \in Addresses :
        /\ totalReferrals'[r] # totalReferrals[r] =>
              /\ totalReferrals'[r] = totalReferrals[r] + 1
              /\ totalReferrals'[r] <= maxReferralsPerUser
              /\ maxReferralsPerUser' = maxReferralsPerUser
        /\ (totalReferrals[r] <= maxReferralsPerUser
              /\ totalReferrals'[r] > maxReferralsPerUser') =>
              /\ maxReferralsPerUser' < maxReferralsPerUser
              /\ totalReferrals'[r] = totalReferrals[r]

\* C6 as amended: a successful referral never raises totalReferrals(r) above the
\* maxReferralsPerUser in force at that call, so the count exceeds the cap only
\* after the owner lowers the cap below it; a referral naming a real referrer at
\* or above the cap never succeeds, and its error is MaxReferralsExceeded exactly
\* when the checks before the max-count check pass
C6_Cap == []C6_AtCapRejected /\ [][C6_CountStep]_vars

C6_Witness ==
    \E r \in ClaimAddrs :
        /\ totalReferrals[r] = maxReferralsPerUser
        /\ \E sender \in Senders, u \in ClaimAddrs :
              processReferral(St, sender, u, r).err = "MaxReferralsExceeded"

ValidationErrors ==
    {"EnforcedPause", "UnauthorizedBackend", "InvalidReferralCode", "InvalidAddress",
     "SelfReferralNotAllowed", "UserAlreadyReferred", "ReferralTooSoon",
     "MaxReferralsExceeded"}

\* C7: with the engine's balance below referrerReward + refereeReward, a referral
\* that passes all other validation fails with InsufficientTokenBalance and the
\* state after the call is the state before it
C7_AllOrNothing ==
    balanceOf[Engine] < referrerReward + refereeReward =>
        /\ \A sender \in AllSenders, u \in RefereeInputs, r \in ReferrerInputs :
              LET res == processReferral(St, sender, u, r) IN
              res.err \notin ValidationErrors =>
                  res.err = "InsufficientTokenBalance" /\ Untouched(res)
        /\ \A sender \in AllSenders, code \in Codes :
              LET res == processReferralByCode(St, sender, code) IN
              res.err \notin ValidationErrors =>
                  res.err = "InsufficientTokenBalance" /\ Untouched(res)

C7_Witness ==
    /\ balanceOf[Engine] >= refereeReward
    /\ \E c \in succeeded : TRUE
    /\ \E sender \in Senders, code \in Codes :
          /\ _isDemoAddress(St, _getReferrerFromCode(St, code))
          /\ processReferralByCode(St, sender, code).err = "InsufficientTokenBalance"
    /\ \E sender \in Senders, u \in ClaimAddrs, r \in Users :
          processReferral(St, sender, u, r).err = "InsufficientTokenBalance"

\* a demo referrer: an address a demo code maps to while demo mode is on
IsDemoReferrer(a) ==
    demoMode /\ a # Zero /\ \E code \in Codes : demoReferralCodes[code] = a

Paid(a, amount) ==
    /\ a # Engine => balanceOf'[a] = balanceOf[a] + amount
    /\ totalRewardsEarned'[a] = totalRewardsEarned[a] + amount

\* C8: a successful referral pays exactly refereeReward to the referee and, if and
\* only if the referrer is a real (non-demo) address, exactly referrerReward to
\* the referrer; totalRewardsEarned grows by the amount paid, and a demo
\* referrer's balance and totalRewardsEarned stay unchanged
C8_ExactRewards ==
    [][\A c \in NewCalls :
          LET toReferrer == IF IsDemoReferrer(c.referrer) THEN 0 ELSE referrerReward IN
          /\ Paid(c.referee, refereeReward)
          /\ Paid(c.referrer, toReferrer)
          /\ balanceOf'[Engine] = balanceOf[Engine]
                - (IF c.referee = Engine THEN 0 ELSE refereeReward)
                - (IF c.referrer = Engine THEN 0 ELSE toReferrer)]_vars

\* C9: while the engine is paused, processReferral, processReferralByCode and
\* registerReferralCode are rejected with the paused error and change no state
C9_PausedRejectsAll ==
    paused =>
        /\ \A sender \in AllSenders, u \in RefereeInputs, r \in ReferrerInputs :
              LET res == processReferral(St, sender, u, r) IN
              res.err = "EnforcedPause" /\ Untouched(res)
        /\ \A sender \in AllSenders, code \in Codes :
              LET res == processReferralByCode(St, sender, code) IN
              res.err = "EnforcedPause" /\ Untouched(res)
        /\ \A sender \in AllSenders, code \in Codes :
              LET res == registerReferralCode(St, sender, code) IN
              res.err = "EnforcedPause" /\ Untouched(res)

\* C10 as stated: processReferral is rejected with UnauthorizedBackend, changing
\* no state, exactly when frontend mode is off and the caller lacks the backend
\* role
C10_UnauthorizedAsStated ==
    \A sender \in AllSenders, u \in RefereeInputs, r \in ReferrerInputs :
        LET res == processReferral(St, sender, u, r) IN
        /\ res.err = "UnauthorizedBackend" <=>
               (~frontendMode /\ sender \notin backendRole)
        /\ res.err = "UnauthorizedBackend" => Untouched(res)

\* C10 as amended: processReferral is rejected with UnauthorizedBackend, changing
\* no state, exactly when the engine is not paused, frontend mode is off and the
\* caller lacks the backend role (while paused the paused error comes first); a
\* caller without the role, also one that lost it through removeBackendWallet,
\* is rejected by every call while frontend mode is off
C10_Unauthorized ==
    \A sender \in AllSenders, u \in RefereeInputs, r \in ReferrerInputs :
        LET res == processReferral(St, sender, u, r) IN
        /\ res.err = "UnauthorizedBackend" <=>
               (~paused /\ ~frontendMode /\ sender \notin backendRole)
        /\ res.err = "UnauthorizedBackend" => Untouched(res)
        /\ (~frontendMode /\ sender \notin backendRole) =>
               res.err \in {"UnauthorizedBackend", "EnforcedPause"}

C10_Witness ==
    /\ ~frontendMode /\ ~paused
    /\ "A" \notin backendRole
    /\ \A u \in ClaimAddrs, r \in ClaimAddrs :
          processReferral(St, "A", u, r).err = "UnauthorizedBackend"
    /\ \E u \in ClaimAddrs, r \in ClaimAddrs :
          processReferral(St, Owner, u, r).err # "UnauthorizedBackend"

\* C11 as stated: processReferralByCode is rejected with UnauthorizedBackend
\* whenever frontend mode is off, also for a holder of the backend role, and with
\* InvalidReferralCode when the code resolves to no address
C11_ByCodeAsStated ==
    \A sender \in AllSenders, code \in CodeInputs :
        LET res == processReferralByCode(St, sender, code) IN
        /\ ~frontendMode => res.err = "UnauthorizedBackend"
        /\ _getReferrerFromCode(St, code) = Zero =>
               res.err \in {"UnauthorizedBackend", "InvalidReferralCode"}

C11_ByCodeRejected ==
    \A sender \in AllSenders, code \in CodeInputs :
        LET res == processReferralByCode(St, sender, code)
            referrer == _getReferrerFromCode(St, code)
        IN
        /\ res.err = "UnauthorizedBackend" <=> (~paused /\ ~frontendMode)
        /\ res.err = "InvalidReferralCode" <=> (CodeGate /\ referrer = Zero)
        /\ (~frontendMode \/ referrer = Zero) => (~Ok(res) /\ Untouched(res))

C11_RefereeIsCaller ==
    \A c \in NewCalls :
        c.fn = "processReferralByCode" =>
            LET mine == userReferrals'[c.sender]
                theirs == userReferrals'[c.referrer]
            IN
            /\ frontendMode /\ ~paused
            /\ c.referrer = _getReferrerFromCode(St, c.code) /\ c.referrer # Zero
            /\ hasBeenReferred'[c.sender]
            /\ Len(mine) = Len(userReferrals[c.sender]) + 1
            /\ mine[Len(mine)].referee = c.sender
            /\ Len(theirs) = Len(userReferrals[c.referrer]) + 1
            /\ theirs[Len(theirs)].referee = c.sender

\* C11 as amended: unless the engine is paused (the paused error comes first),
\* processReferralByCode is rejected with UnauthorizedBackend exactly when
\* frontend mode is off, whoever calls, and with InvalidReferralCode exactly when
\* frontend mode is on and the code resolves to no address; it never succeeds in
\* either case, and every referral it completes records the caller as referee
C11_ByCode == []C11_ByCodeRejected /\ [][C11_RefereeIsCaller]_vars

C11_Witness ==
    /\ ~frontendMode /\ ~paused /\ "A" \in backendRole
    /\ processReferralByCode(St, "A", "REF_ABC123").err = "UnauthorizedBackend"
    /\ \E c \in succeeded :
          /\ c.fn = "processReferralByCode"
          /\ \E i \in DOMAIN userReferrals[c.sender] :
                userReferrals[c.sender][i].referee = c.sender

NewRegistrations == registered' \ registered

\* C12 as stated: after A registers C, getReferrerFromCode(C) returns A; after A
\* then registers D, getReferrerFromCode(D) returns A and getReferrerFromCode(C)
\* returns the zero address, for every code C, seeded demo codes included
C12_RoundTripAsStated ==
    [][\A g \in NewRegistrations :
          /\ getReferrerFromCode(St', g.code) = g.sender
          /\ g.oldCode # "" => getReferrerFromCode(St', g.oldCode) = Zero]_vars

\* C12 as amended: after A registers C, getReferrerFromCode(C) returns A, also
\* when C is a seeded demo code; after A then registers D, D resolves to A and C
\* is no longer registered to anyone, so C resolves to the zero address unless C
\* is also a demo code and demo mode is on, when it resolves to the demo address
C12_RoundTrip ==
    [][\A g \in NewRegistrations :
          /\ g.code # "" /\ g.code # g.oldCode
          /\ getReferrerFromCode(St', g.code) = g.sender
          /\ addressToReferralCode'[g.sender] = g.code
          /\ g.oldCode # "" =>
                /\ referralCodeToAddress[g.oldCode] = g.sender
                /\ referralCodeToAddress'[g.oldCode] = Zero
                /\ getReferrerFromCode(St', g.oldCode) =
                       IF demoMode THEN demoReferralCodes[g.oldCode] ELSE Zero
                /\ (g.oldCode \notin SeededCodes /\ demoReferralCodes[g.oldCode] = Zero)
                       => getReferrerFromCode(St', g.oldCode) = Zero]_vars

C12_Witness ==
    \E g \in registered, h \in registered :
        /\ g.sender = h.sender /\ h.oldCode = g.code /\ g.code \in SeededCodes
        /\ addressToReferralCode[h.sender] = h.code
        /\ getReferrerFromCode(St, h.code) = h.sender
        /\ getReferrerFromCode(St, g.code) = DemoAddress(g.code)

C13_DemoCountersZero ==
    \A code \in Codes :
        LET d == demoReferralCodes[code] IN
        d # Zero =>
            /\ totalReferrals[d] = 0
            /\ lastReferralTime[d] = 0
            /\ totalRewardsEarned[d] = 0
            /\ balanceOf[d] = 0

C13_SeededReferral ==
    \A c \in NewCalls :
        (c.fn = "processReferralByCode" /\ c.code \in SeededCodes
            /\ c.referrer = demoReferralCodes[c.code]) =>
            /\ hasBeenReferred'[c.sender]
            /\ balanceOf'[c.sender] = balanceOf[c.sender] + refereeReward
            /\ totalRewardsEarned'[c.sender] = totalRewardsEarned[c.sender] + refereeReward
            /\ totalReferrals'[c.referrer] = totalReferrals[c.referrer]
            /\ lastReferralTime'[c.referrer] = lastReferralTime[c.referrer]
            /\ totalRewardsEarned'[c.referrer] = totalRewardsEarned[c.referrer]
            /\ balanceOf'[c.referrer] = balanceOf[c.referrer]

\* C13: in every reachable state each address mapped by a demo code has
\* totalReferrals, lastReferralTime and totalRewardsEarned 0 and holds no reward
\* tokens; a referral through a seeded demo code marks the caller as referred,
\* pays the caller refereeReward and leaves the demo referrer's counters untouched
C13_DemoUntouched == []C13_DemoCountersZero /\ [][C13_SeededReferral]_vars

\* C14 as stated: registerReferralCode(C) by A succeeds exactly when frontend mode
\* is on, C is non-empty and no address other than A holds C; it fails with
\* UnauthorizedBackend with frontend mode off, InvalidReferralCode for the empty
\* code, ReferralCodeAlreadyExists only when another address holds C, and a
\* failed registration changes neither direction of the code mapping
C14_RegisterAsStated ==
    \A sender \in AllSenders, code \in Codes :
        LET res == registerReferralCode(St, sender, code)
            holder == referralCodeToAddress[code]
        IN
        /\ Ok(res) <=> (frontendMode /\ code # "" /\ holder \in {Zero, sender})
        /\ ~frontendMode => res.err = "UnauthorizedBackend"
        /\ code = "" => res.err \in {"UnauthorizedBackend", "InvalidReferralCode"}
        /\ res.err = "ReferralCodeAlreadyExists" => holder \notin {Zero, sender}
        /\ ~Ok(res) => Untouched(res)

C14_RegisterOutcome ==
    \A sender \in AllSenders, code \in Codes :
        LET res == registerReferralCode(St, sender, code)
            holder == referralCodeToAddress[code]
        IN
        /\ Ok(res) <=> (frontendMode /\ code # "" /\ holder = Zero)
        /\ res.err = "UnauthorizedBackend" <=> ~frontendMode
        /\ res.err = "InvalidReferralCode" <=> (frontendMode /\ code = "")
        /\ res.err = "ReferralCodeAlreadyExists" <=>
               (frontendMode /\ code # "" /\ holder # Zero)
        /\ ~Ok(res) => Untouched(res)

C14_RegisterStep ==
    \A g \in NewRegistrations :
        /\ frontendMode /\ g.code # "" /\ referralCodeToAddress[g.code] = Zero
        /\ referralCodeToAddress'[g.code] = g.sender
        /\ addressToReferralCode'[g.sender] = g.code

\* C14 as amended: registerReferralCode(C) by A succeeds exactly when frontend
\* mode is on, C is non-empty and C is registered to no address, A included; it
\* fails with UnauthorizedBackend exactly when frontend mode is off, with
\* InvalidReferralCode exactly when frontend mode is on and C is empty, with
\* ReferralCodeAlreadyExists exactly when frontend mode is on and some address,
\* possibly A itself, holds the non-empty C; a failed registration changes nothing
C14_Register == []C14_RegisterOutcome /\ [][C14_RegisterStep]_vars

C14_Witness ==
    /\ frontendMode
    /\ \E g \in registered :
          /\ referralCodeToAddress[g.code] = g.sender
          /\ registerReferralCode(St, g.sender, g.code).err = "ReferralCodeAlreadyExists"
          /\ \E other \in Senders \ {g.sender} :
                registerReferralCode(St, other, g.code).err = "ReferralCodeAlreadyExists"
    /\ registerReferralCode(St, "B", "").err = "InvalidReferralCode"

RECURSIVE SumOver(_, _)
SumOver(f, S) ==
    IF S = {} THEN 0
    ELSE LET a == CHOOSE x \in S : TRUE IN f[a] + SumOver(f, S \ {a})

Gain(a) == balanceOf'[a] - balanceOf[a]

\* a referral step pays a: a is its referee or referrer, the Referral is recorded
\* under a, and a's totalRewardsEarned grows by what a receives
PaidAsParty(a, c) ==
    LET recs == userReferrals'[a] IN
    /\ a \in {c.referee, c.referrer}
    /\ Len(recs) = Len(userReferrals[a]) + 1
    /\ recs[Len(recs)].referee = c.referee
    /\ recs[Len(recs)].referrer = c.referrer
    /\ totalRewardsEarned'[a] = totalRewardsEarned[a] + Gain(a)

C15_RejectedKeepsBalances ==
    /\ \A sender \in AllSenders, u \in RefereeInputs, r \in ReferrerInputs :
          LET res == processReferral(St, sender, u, r) IN
          ~Ok(res) => res.balanceOf = balanceOf
    /\ \A sender \in AllSenders, code \in CodeInputs :
          LET res == processReferralByCode(St, sender, code) IN
          ~Ok(res) => res.balanceOf = balanceOf
    /\ \A sender \in AllSenders, code \in RegisterCodes :
          registerReferralCode(St, sender, code).balanceOf = balanceOf
    /\ \A sender \in AllSenders, amount \in WithdrawAmounts :
          LET res == emergencyWithdraw(St, sender, amount) IN
          /\ sender # Owner => ~Ok(res)
          /\ ~Ok(res) => res.balanceOf = balanceOf

C15_OutflowStep ==
    LET drop == balanceOf[Engine] - balanceOf'[Engine]
        others == Addresses \ {Engine}
    IN
    /\ drop > 0 =>
          \/ /\ \E c \in NewCalls : TRUE
             /\ withdrawn' = withdrawn
             /\ drop = SumOver([a \in others |-> Gain(a)], others)
             /\ drop <= referrerReward + refereeReward
          \/ /\ NewCalls = {}
             /\ withdrawn' = withdrawn + drop
             /\ Gain(Owner) = drop
    /\ \A a \in others :
          Gain(a) > 0 =>
              \/ \E c \in NewCalls : PaidAsParty(a, c)
              \/ a = Owner /\ withdrawn' = withdrawn + Gain(a)

\* C15: the engine's token balance drops only in a successful referral, by
\* exactly what that referral pays out, or in emergencyWithdraw, which only the
\* owner can call; a rejected call leaves every balance alone, and an address
\* gains tokens from the engine only as referee or referrer of a Referral that
\* the same step records
C15_Outflow == []C15_RejectedKeepsBalances /\ [][C15_OutflowStep]_vars

C15_Witness ==
    /\ withdrawn > 0
    /\ \E c \in succeeded : balanceOf[c.referee] > 0
    /\ balanceOf[Engine] < funded - withdrawn
    /\ ~Ok(emergencyWithdraw(St, "A", 1))
    /\ \E sender \in Senders, u \in RefereeInputs, r \in ReferrerInputs :
          processReferral(St, sender, u, r).err = "InsufficientTokenBalance"

\* C16 as stated: totalSupply never exceeds MAX_SUPPLY; mint by a caller that is
\* not an authorized minter fails with UnauthorizedMinter, mint that would exceed
\* the cap fails with ExceedsMaxSupply, both leaving every balance unchanged
C16_CapAsStated ==
    /\ totalSupply <= MAX_SUPPLY
    /\ \A sender \in TokenSenders, to \in TokenReceivers, amount \in MintAmounts :
          LET res == mint(St, sender, to, amount) IN
          /\ sender \notin authorizedMinters =>
                 res.err = "UnauthorizedMinter" /\ res.balanceOf = balanceOf
          /\ (totalSupply + amount > MAX_SUPPLY /\ to # Zero /\ amount # 0) =>
                 /\ res.err \in {"UnauthorizedMinter", "ExceedsMaxSupply"}
                 /\ res.balanceOf = balanceOf

\* C16 as amended: totalSupply never exceeds MAX_SUPPLY and equals the sum of the
\* balances; mint by a non-minter and mint beyond the cap never succeed and leave
\* balances and supply unchanged; the error is UnauthorizedMinter exactly when
\* the token is not paused and the caller is not a minter, and ExceedsMaxSupply
\* exactly when the token is not paused, the caller is a minter, the receiver and
\* the amount are non-zero and totalSupply + amount exceeds MAX_SUPPLY
C16_SupplyCap ==
    /\ totalSupply <= MAX_SUPPLY
    /\ totalSupply = SumOver(balanceOf, Addresses)
    /\ \A sender \in TokenSenders, to \in TokenReceivers, amount \in MintAmounts :
          LET res == mint(St, sender, to, amount)
              minter == sender \in authorizedMinters
              over == totalSupply + amount > MAX_SUPPLY
          IN
          /\ (~minter \/ over) => (~Ok(res) /\ Untouched(res))
          /\ res.err = "UnauthorizedMinter" <=> (~tokenPaused /\ ~minter)
          /\ res.err = "ExceedsMaxSupply" <=>
                 (~tokenPaused /\ minter /\ to # Zero /\ amount # 0 /\ over)
          /\ Ok(res) => res.totalSupply = totalSupply + amount

C16_Witness ==
    /\ totalSupply = MAX_SUPPLY
    /\ balanceOf["A"] > 0
    /\ mint(St, Owner, "A", 1).err = "ExceedsMaxSupply"
    /\ mint(St, "A", "A", 1).err = "UnauthorizedMinter"

\* C17: with demo mode on and the contracts deployed, validateReferralCode
\* accepts every demo code the README lists (REF_ABC123, REF_DEF456, REF_GHI789,
\* REF_JKL012): the code passes the format check and resolves to the demo
\* referrer seeded in the contract
C17_ReadmeCodesValid ==
    demoMode =>
        \A code \in ReadmeDemoCodes :
            LET res == validateReferralCode(St, Chars(code), TRUE) IN
            /\ codeRegex(toUpperCase(trim(Chars(code))))
            /\ res.valid
            /\ referralCodeToAddress[code] = Zero =>
                   res.referrerAddress = DemoAddress(code)

\* the violated rules of a referral, in the order of the claim; real says
\* whether the cooldown and the count apply to the referrer
CooldownRunning(r) == now < lastReferralTime[r] + minReferralInterval
CountExhausted(r) == totalReferrals[r] >= maxReferralsPerUser

ViolatedRules(u, r, real) ==
    (IF u = Zero \/ r = Zero THEN {1} ELSE {})
    \cup (IF u = r THEN {2} ELSE {})
    \cup (IF hasBeenReferred[u] THEN {3} ELSE {})
    \cup (IF real /\ CooldownRunning(r) THEN {4} ELSE {})
    \cup (IF real /\ CountExhausted(r) THEN {5} ELSE {})

RuleErrors ==
    <<"InvalidAddress", "SelfReferralNotAllowed", "UserAlreadyReferred",
      "ReferralTooSoon", "MaxReferralsExceeded">>

FirstViolated(u, r, real) ==
    LET v == ViolatedRules(u, r, real) IN
    IF v = {} THEN ""
    ELSE RuleErrors[CHOOSE i \in v : \A j \in v : i <= j]

C18_FirstFailureWins ==
    /\ \A u \in ClaimAddrs, r \in ClaimAddrs :
          LET res == _processReferralInternal(St, u, r)
              asClaimed == FirstViolated(u, r, ~IsDemoReferrer(r))
              asCoded == FirstViolated(u, r, ~_isDemoAddress(St, r))
          IN
          /\ asClaimed # "" => res.err = asClaimed
          /\ asCoded # "" => (res.err = asCoded /\ Untouched(res))
          /\ asCoded = "" => res.err \notin {RuleErrors[i] : i \in DOMAIN RuleErrors}
    /\ \A sender \in AllSenders, u \in RefereeInputs, r \in ReferrerInputs :
          LET asClaimed == FirstViolated(u, r, ~IsDemoReferrer(r)) IN
          (DirectGate(sender) /\ asClaimed # "") =>
              processReferral(St, sender, u, r).err = asClaimed
    /\ \A sender \in AllSenders, code \in CodeInputs :
          LET r == _getReferrerFromCode(St, code)
              asClaimed == FirstViolated(sender, r, ~IsDemoReferrer(r))
          IN
          (CodeGate /\ r # Zero /\ asClaimed # "") =>
              processReferralByCode(St, sender, code).err = asClaimed

C18_NoRuleViolated ==
    \A c \in NewCalls :
        FirstViolated(c.referee, c.referrer, ~_isDemoAddress(St, c.referrer)) = ""

\* C18: the error of a referral that violates several validation rules is that of
\* the first violated rule in the order zero address, self-referral, referee
\* already referred, cooldown of a real referrer, count of a real referrer; a
\* referral that succeeds violates none of them
C18_ValidationOrder == []C18_FirstFailureWins /\ [][C18_NoRuleViolated]_vars

C18_Witness ==
    \E u \in ClaimAddrs, v \in ClaimAddrs, r \in ClaimAddrs :
        /\ ViolatedRules(u, r, ~IsDemoReferrer(r)) = {3, 4, 5}
        /\ _processReferralInternal(St, u, r).err = "UserAlreadyReferred"
        /\ ViolatedRules(v, r, ~IsDemoReferrer(r)) = {4, 5}
        /\ _processReferralInternal(St, v, r).err = "ReferralTooSoon"
        /\ ViolatedRules(r, r, ~IsDemoReferrer(r)) = {2, 4, 5}
        /\ _processReferralInternal(St, r, r).err = "SelfReferralNotAllowed"

\* the holder of a code by user registration, the demo entry of a code
RegisteredHolder(code) == referralCodeToAddress[code]
DemoEntry(code) == demoReferralCodes[code]

C19_ResolutionOrder ==
    \A code \in Codes :
        LET resolved == getReferrerFromCode(St, code) IN
        /\ RegisteredHolder(code) # Zero => resolved = RegisteredHolder(code)
        /\ (RegisteredHolder(code) = Zero /\ demoMode) => resolved = DemoEntry(code)
        /\ (RegisteredHolder(code) = Zero /\ ~demoMode) => resolved = Zero
        /\ ~demoMode => resolved \in {Zero, RegisteredHolder(code)}
        /\ \A sender \in AllSenders :
              CodeGate =>
                  LET res == processReferralByCode(St, sender, code) IN
                  IF resolved = Zero THEN res.err = "InvalidReferralCode"
                  ELSE res.err = _processReferralInternal(St, sender, resolved).err

C19_ByCodeUsesResolution ==
    \A c \in NewCalls :
        c.fn = "processReferralByCode" =>
            LET recorded == userReferrals'[c.sender][Len(userReferrals'[c.sender])]
                expected == IF RegisteredHolder(c.code) # Zero
                            THEN RegisteredHolder(c.code)
                            ELSE IF demoMode THEN DemoEntry(c.code) ELSE Zero
            IN /\ expected # Zero
               /\ recorded.referrer = expected
               /\ recorded.referee = c.sender

\* C19: a code resolves to its user-registered holder if there is one, otherwise
\* to its demo entry if demo mode is on, otherwise to the zero address; so a
\* registration wins over a demo entry of the same code and with demo mode off
\* no demo entry is returned; a referral by code records the resolved address
C19_CodeResolution == []C19_ResolutionOrder /\ [][C19_ByCodeUsesResolution]_vars

C19_Witness ==
    \E code \in Codes, u \in Users :
        /\ demoMode
        /\ DemoEntry(code) # Zero
        /\ RegisteredHolder(code) \notin {Zero, DemoEntry(code)}
        /\ getReferrerFromCode(St, code) = RegisteredHolder(code)
        /\ \E c \in succeeded :
              /\ c.fn = "processReferralByCode"
              /\ c.code = code
              /\ c.sender = u
              /\ userReferrals[u] # <<>>
              /\ userReferrals[u][1].referrer = RegisteredHolder(code)

FullSum == referrerReward + refereeReward

\* a referral that passes every check before the reward distribution
PassesValidation(u, r) ==
    FirstViolated(u, r, ~_isDemoAddress(St, r)) = ""

C20_FullSumRequired ==
    balanceOf[Engine] < FullSum =>
        /\ \A sender \in AllSenders, u \in RefereeInputs, r \in ReferrerInputs :
              (DirectGate(sender) /\ PassesValidation(u, r)) =>
                  processReferral(St, sender, u, r).err = "InsufficientTokenBalance"
        /\ \A sender \in AllSenders, code \in CodeInputs :
              LET r == _getReferrerFromCode(St, code) IN
              (CodeGate /\ r # Zero /\ PassesValidation(sender, r)) =>
                  processReferralByCode(St, sender, code).err
                      = "InsufficientTokenBalance"

C20_RetryAfterFunding ==
    (funded' # funded /\ balanceOf'[Engine] >= FullSum) =>
        /\ \A sender \in AllSenders, u \in RefereeInputs, r \in ReferrerInputs :
              processReferral(St, sender, u, r).err = "InsufficientTokenBalance"
                  => Ok(processReferral(St', sender, u, r))
        /\ \A sender \in AllSenders, code \in CodeInputs :
              processReferralByCode(St, sender, code).err = "InsufficientTokenBalance"
                  => Ok(processReferralByCode(St', sender, code))

\* C20: the balance check uses referrerReward + refereeReward whoever the
\* referrer is: an otherwise valid referral, also one through a demo referrer
\* with refereeReward <= engine balance < the sum, fails with
\* InsufficientTokenBalance, and the same call succeeds once the engine has been
\* funded to at least the sum
C20_FullSumBalance == []C20_FullSumRequired /\ [][C20_RetryAfterFunding]_vars

C20_Witness ==
    \E sender \in AllSenders, u \in RefereeInputs, r \in ReferrerInputs,
       amount \in FundAmounts :
        LET topUp == tokenTransfer(St, Owner, Engine, amount) IN
        /\ _isDemoAddress(St, r)
        /\ funded > 0
        /\ refereeReward > 0
        /\ referrerReward > 0
        /\ refereeReward <= balanceOf[Engine]
        /\ balanceOf[Engine] < FullSum
        /\ processReferral(St, sender, u, r).err = "InsufficientTokenBalance"
        /\ Ok(topUp)
        /\ Ok(processReferral(topUp, sender, u, r))

\* the interval since the last referral of a has elapsed, or a never referred
IntervalElapsed(a) ==
    \/ lastReferralTime[a] = 0
    \/ now - lastReferralTime[a] >= minReferralInterval

\* C21: isEligibleForReferral(a) is true exactly when a has not been referred,
\* lastReferralTime(a) is 0 or at least minReferralInterval has elapsed since it,
\* and totalReferrals(a) < maxReferralsPerUser
C21_Eligibility ==
    \A a \in Addresses :
        isEligibleForReferral(St, a)
            <=> /\ ~hasBeenReferred[a]
                /\ IntervalElapsed(a)
                /\ totalReferrals[a] < maxReferralsPerUser

\* C22: a referral naming a real referrer whose lastReferralTime is 0 never
\* fails with ReferralTooSoon, whatever the time and the minimum interval
C22_NeverReferredNotBlocked ==
    \A r \in ClaimAddrs :
        (~IsDemoReferrer(r) /\ lastReferralTime[r] = 0) =>
            /\ \A sender \in AllSenders, u \in RefereeInputs :
                  processReferral(St, sender, u, r).err # "ReferralTooSoon"
            /\ \A sender \in AllSenders, code \in CodeInputs :
                  _getReferrerFromCode(St, code) = r =>
                      processReferralByCode(St, sender, code).err # "ReferralTooSoon"

\* the eligibility of r apart from r having been referred itself
EligibleButForReferred(r) ==
    isEligibleForReferral([St EXCEPT !.hasBeenReferred[r] = FALSE], r)

C24_DemoExempt ==
    \A code \in Codes, sender \in AllSenders :
        LET r == _getReferrerFromCode(St, code) IN
        (/\ demoMode
         /\ r # Zero
         /\ r = demoReferralCodes[code]
         /\ ~hasBeenReferred[sender]
         /\ sender # r)
            => processReferralByCode(St, sender, code).err
                   \notin {"ReferralTooSoon", "MaxReferralsExceeded"}

\* C25: in every successful processReferral made by a caller without the backend
\* role the referee is the caller
C25_SelfOnly ==
    [][\A c \in NewCalls :
          (c.fn = "processReferral" /\ ~hasRole(St, c.sender))
              => c.referee = c.sender]_vars

\* the events the engine emits in the call recorded as c (the token's Transfer
\* events left out), and the events the claim expects
EngineEvent(e) == e.event # "Transfer"

EventsOf(c) ==
    SelectSeq(IF c.fn = "processReferral"
              THEN processReferral(St, c.sender, c.referee, c.referrer).log
              ELSE processReferralByCode(St, c.sender, c.code).log,
              EngineEvent)

Distributed(user, amount, tag) ==
    [event |-> "RewardsDistributed", user |-> user, amount |-> amount,
     referralType |-> tag]

Processed(c) ==
    [event |-> "ReferralProcessed", referee |-> c.referee,
     referrer |-> c.referrer, timestamp |-> now]

C26_RejectedSilent ==
    /\ \A sender \in AllSenders, u \in RefereeInputs, r \in ReferrerInputs :
          LET res == processReferral(St, sender, u, r) IN
          ~Ok(res) => res.log = <<>>
    /\ \A sender \in AllSenders, code \in CodeInputs :
          LET res == processReferralByCode(St, sender, code) IN
          ~Ok(res) => res.log = <<>>

C26_SuccessEvents ==
    \A c \in NewCalls :
        EventsOf(c) =
            (IF IsDemoReferrer(c.referrer) THEN <<>>
             ELSE <<Distributed(c.referrer, referrerReward, "REFERRER")>>)
            \o <<Distributed(c.referee, refereeReward, "REFEREE"), Processed(c)>>

\* C26: a successful referral emits RewardsDistributed tagged REFERRER for a real
\* referrer and none for a demo referrer, then RewardsDistributed tagged REFEREE
\* for the referee, then exactly one ReferralProcessed(referee, referrer,
\* timestamp); a rejected call emits no event
C26_Events == []C26_RejectedSilent /\ [][C26_SuccessEvents]_vars

\* the same with the referrer's event tied to the referrer being paid
C26_EventsFollowPayment ==
    [][\A c \in NewCalls :
          EventsOf(c) =
              (IF totalRewardsEarned'[c.referrer] = totalRewardsEarned[c.referrer]
               THEN <<>>
               ELSE <<Distributed(c.referrer, referrerReward, "REFERRER")>>)
              \o <<Distributed(c.referee, refereeReward, "REFEREE"), Processed(c)>>]_vars

\* the successful referrals in which a took part
ReferralsOf(a) == {c \in succeeded : a \in {c.referee, c.referrer}}

C27_CountMatches ==
    \A a \in Addresses :
        /\ getReferralCount(St, a) = Cardinality(ReferralsOf(a))
        /\ getReferrals(St, a) = userReferrals[a]
        /\ \A i \in DOMAIN userReferrals[a] :
              a \in {userReferrals[a][i].referee, userReferrals[a][i].referrer}

C27_AppendOnly ==
    /\ \A a \in Addresses :
          /\ Len(userReferrals'[a]) >= Len(userReferrals[a])
          /\ SubSeq(userReferrals'[a], 1, Len(userReferrals[a])) = userReferrals[a]
    /\ \A c \in NewCalls :
          LET record == [referee |-> c.referee, referrer |-> c.referrer,
                         timestamp |-> now, referrerReward |-> referrerReward,
                         refereeReward |-> refereeReward]
          IN /\ userReferrals'[c.referee] = Append(userReferrals[c.referee], record)
             /\ userReferrals'[c.referrer] = Append(userReferrals[c.referrer], record)
             /\ \A a \in Addresses \ {c.referee, c.referrer} :
                   userReferrals'[a] = userReferrals[a]
    /\ NewCalls = {} => userReferrals' = userReferrals

\* C27: each successful referral appends the same record {referee, referrer,
\* timestamp, referrerReward, refereeReward} to the end of the referrer's and of
\* the referee's list, no step changes or removes a record already there, and
\* getReferralCount(a) is the number of successful referrals a took part in
C27_History == []C27_CountMatches /\ [][C27_AppendOnly]_vars

C27_Witness ==
    \E a \in Addresses, b \in Addresses :
        /\ Len(userReferrals[a]) = 2
        /\ Cardinality(ReferralsOf(a)) = 2
        /\ userReferrals[a][1].referrer = a
        /\ userReferrals[a][2].referrer = a
        /\ userReferrals[a][1].referee # userReferrals[a][2].referee
        /\ b = userReferrals[a][2].referee
        /\ userReferrals[b] = <<userReferrals[a][2]>>

\* the codes that can be held: every code but the empty string, which
\* addressToReferralCode uses for "no code"
HoldableCodes == Codes \ {""}

C28_OneToOne ==
    /\ \A c \in HoldableCodes, a \in Addresses \ {Zero} :
          referralCodeToAddress[c] = a <=> addressToReferralCode[a] = c
    /\ referralCodeToAddress[""] = Zero
    /\ addressToReferralCode[Zero] = ""
    /\ \A c \in HoldableCodes :
          Cardinality({a \in Addresses : addressToReferralCode[a] = c}) <= 1

C28_ReleasedIsFree ==
    \A g \in NewRegistrations :
        g.oldCode # "" =>
            /\ referralCodeToAddress'[g.oldCode] = Zero
            /\ \A other \in Senders \ {g.sender} :
                  LET res == registerReferralCode(St', other, g.oldCode) IN
                  /\ Ok(res)
                  /\ res.referralCodeToAddress[g.oldCode] = other

\* C28: after any sequence of registerReferralCode calls,
\* referralCodeToAddress[c] = a (a non-zero) if and only if
\* addressToReferralCode[a] = c, for every non-empty code c: a code has at most
\* one holder, an address at most one code, and a code its holder released by
\* registering another can be registered by another address
C28_CodeRelation == []C28_OneToOne /\ [][C28_ReleasedIsFree]_vars

C28_Witness ==
    \E g \in registered, h \in registered :
        /\ g.oldCode # ""
        /\ h.code = g.oldCode
        /\ h.sender # g.sender
        /\ referralCodeToAddress[g.code] = g.sender
        /\ addressToReferralCode[g.sender] = g.code
        /\ referralCodeToAddress[h.code] = h.sender
        /\ addressToReferralCode[h.sender] = h.code

\* the codes typed into the client
ClientCodes == {"REF_ABC123", "REF_GHI789"}

\* the typed error the engine rejects the client's referral call with, "" if the
\* client does not get to the call or the call succeeds
ClientCallError(address, code) ==
    LET validation == validateReferralCode(St, Chars(code), TRUE) IN
    IF \/ ~validation.valid
       \/ validation.referrerAddress = address
       \/ paused
       \/ hasBeenReferred[address]
       \/ ~Ok(checkAndFundContract(St, address))
    THEN ""
    ELSE referralCall(checkAndFundContract(St, address), address, Chars(code),
                      validation.referrerAddress).err

\* C29: when the engine rejects the client's referral call with a typed error,
\* the client's processReferral shows the message mapped to that error, returns
\* false and does not send the referral call again
C29_NoRetry ==
    \A address \in Users, code \in ClientCodes :
        LET e == ClientCallError(address, code) IN
        e # "" =>
            \A o \in useContract_processReferral(St, address, Chars(code)) :
                /\ ~o.returned
                /\ o.toast = CONTRACT_ERROR_MESSAGES[e]
                /\ o.sent = 0

\* the part of C29 that does hold: the client returns false
C29_ReturnsFalse ==
    \A address \in Users, code \in ClientCodes :
        ClientCallError(address, code) # "" =>
            \A o \in useContract_processReferral(St, address, Chars(code)) :
                ~o.returned /\ o.estimated = 1 /\ o.sent = 1

\* C30: in every reachable state the engine's balance is the tokens funded minus
\* the tokens taken by emergencyWithdraw minus the sum of totalRewardsEarned over
\* all addresses, the engine's own address included
C30_Conserved ==
    balanceOf[Engine] = funded - withdrawn - SumOver(totalRewardsEarned, Addresses)

\* the same without the rewards credited to the engine itself
C30_ConservedButEngine ==
    balanceOf[Engine] =
        funded - withdrawn - SumOver(totalRewardsEarned, Addresses \ {Engine})

====
